---- MODULE Spec2Model ----
(***************************************************************************)
(* Model of msc_pygeoapi/process/cccs/climate_stats.py: the missing-data   *)
(* evaluation, the statistics aggregation and the climate_stats            *)
(* orchestration that feeds them.                                          *)
(*                                                                         *)
(* Python objects are tagged records: PyNone, PyInt(n), PyStr(s),          *)
(* PyNum(k) and PyList(s).  A PyNum holds a real number in fixed point:    *)
(* PyNum(k) is the number k / Unit.  Observation values and thresholds are *)
(* multiples of 1/8 (exact as binary floats), and results of round(x, 2)   *)
(* are multiples of 1/100; both are integers in units of 1/Unit.           *)
(* A call either returns a value, Ret(v), or raises, Raise(name).          *)
(***************************************************************************)
EXTENDS Integers, Sequences, FiniteSets, TLC

VARIABLES
    call,        \* direct call of a function: its name and arguments
    ret,         \* outcome of the direct call
    pc,          \* position of the invocation inside climate_stats
    request,     \* what the caller gave to the entry point
    args,        \* the parameters climate_stats was called with
    query,       \* climate_stats: query
    es_result,   \* climate_stats: es_hits and es_count
    locals,      \* climate_stats: the locals of lines 776-898 and the outcome
    response     \* what the entry point gives back to its caller

fnvars == <<call, ret>>
csvars == <<pc, request, args, query, es_result, locals, response>>
vars == <<call, ret, pc, request, args, query, es_result, locals, response>>

(***************************************************************************)
(* Bounds of the model.                                                    *)
(***************************************************************************)
MaxLen == 4
MaxValues == 3
MaxMissingDays == 12
MaxRun == 6
MaxHits == 3

(***************************************************************************)
(* Python values.                                                          *)
(***************************************************************************)
Unit == 8 * 25

PyNone == [type |-> "NoneType"]
PyInt(n) == [type |-> "int", val |-> n]
PyStr(s) == [type |-> "str", val |-> s]
PyNum(k) == [type |-> "num", val |-> k]
PyList(s) == [type |-> "list", items |-> s]
Unbound == [type |-> "unbound"]

\* bool(x), as tested by `if x:`
Truthy(x) ==
    IF x.type = "NoneType" THEN FALSE
    ELSE IF x.type = "list" THEN x.items # <<>>
    ELSE IF x.type = "str" THEN x.val # ""
    ELSE IF x.type \in {"int", "num"} THEN x.val # 0
    ELSE TRUE

Ret(v) == [kind |-> "return", value |-> v]
Raise(e) == [kind |-> "raise", value |-> PyStr(e)]

\* round(num / den, 2) for den > 0, as a fixed-point number: the nearest
\* multiple of 1/100, a tie going to the even hundredth.
Sgn(x) == IF x > 0 THEN 1 ELSE IF x < 0 THEN 0 - 1 ELSE 0

\* floor of log2(a / d), for a, d > 0
RECURSIVE Log2Floor(_, _)
Log2Floor(a, d) ==
    IF a >= 2 * d THEN Log2Floor(a, 2 * d) + 1
    ELSE IF a < d THEN Log2Floor(2 * a, d) - 1
    ELSE 0

RECURSIVE Pow2(_)
Pow2(n) == IF n <= 0 THEN 1 ELSE 2 * Pow2(n - 1)

\* (a * 2^e) % m, eight bits at a time, for m < 2^23
RECURSIVE ShiftMod(_, _, _)
ShiftMod(a, e, m) ==
    IF e = 0 THEN a % m
    ELSE IF e >= 8 THEN (256 * ShiftMod(a, e - 8, m)) % m
    ELSE (2 * ShiftMod(a, e - 1, m)) % m

\* the exponent e that gives a / d a significand of 53 bits:
\* 2^52 <= a * 2^e / d < 2^53
FloatShift(a, d) == 52 - Log2Floor(a, d)

\* The binary float n / d (one division of two numbers that floats hold
\* exactly, rounded to nearest, ties to even) against the exact quotient:
\* 1 when the float is greater, -1 when it is smaller, 0 when it is exact.
DivSide(n, d) ==
    IF n = 0 THEN 0
    ELSE LET a == IF n < 0 THEN 0 - n ELSE n
             R == ShiftMod(a, FloatShift(a, d), 2 * d)
             r == R % d
             up == 2 * r > d \/ (2 * r = d /\ R >= d)
         IN  IF r = 0 THEN 0 ELSE IF up THEN Sgn(n) ELSE 0 - Sgn(n)

\* The binary float (a / c) * 100, a division and a multiplication each
\* rounded to nearest, against the exact 100 * a / c, for 0 <= a and 0 < c.
\* The significand of a / c is known modulo 256 and by its error rho / c;
\* its product by 100 loses k = 6 or 7 bits, with the error delta.
PercentSide(a, c) ==
    IF a = 0 THEN 0
    ELSE LET R == ShiftMod(a, FloatShift(a, c), 256 * c)
             F == R \div c
             r == R % c
             up == 2 * r > c \/ (2 * r = c /\ F % 2 = 1)
             M == IF up THEN (F + 1) % 256 ELSE F
             rho == IF up THEN r - c ELSE r
             l == Log2Floor(a, c)
             K == IF 25 * a * Pow2(0 - l) < 32 * c * Pow2(l)
                  THEN Pow2(6) ELSE Pow2(7)
             P == (100 * M) % (2 * K)
             p == P % K
             delta == IF 2 * p < K THEN 0 - p
                      ELSE IF 2 * p > K THEN K - p
                      ELSE IF P >= K THEN K \div 2 ELSE 0 - (K \div 2)
         IN  Sgn(delta * c - 100 * rho)

\* round(x, 2) of the float x that stands for the quotient num / den and
\* lies on the side `side` of it: the hundredth nearest to the float, which
\* is the hundredth nearest to the quotient unless the quotient is a tie;
\* on a tie the float decides, and a float that is the tie itself goes to
\* the even hundredth.
Round2(num, den, side) ==
    LET q == (100 * num) \div den
        r == (100 * num) % den
        h == IF 2 * r < den THEN q
             ELSE IF 2 * r > den THEN q + 1
             ELSE IF side < 0 THEN q
             ELSE IF side > 0 THEN q + 1
             ELSE IF q % 2 = 0 THEN q ELSE q + 1
    IN  h * (Unit \div 100)

(***************************************************************************)
(* calculate_missing_days: one pass, counting the entries that are None.   *)
(***************************************************************************)
\* variant: `if not value`, which also counts a value of zero
RECURSIVE MissingDaysLoop_Falsy(_, _)
MissingDaysLoop_Falsy(data, missing_days) ==
    IF data = <<>> THEN missing_days
    ELSE MissingDaysLoop_Falsy(Tail(data),
                         IF Head(data) = PyNone \/ Head(data) = PyNum(0)
                         THEN missing_days + 1 ELSE missing_days)

RECURSIVE MissingDaysLoop(_, _)
MissingDaysLoop(data, missing_days) ==
    IF data = <<>> THEN missing_days
    ELSE MissingDaysLoop(Tail(data),
                         IF Head(data) = PyNone THEN missing_days + 1
                         ELSE missing_days)

calculate_missing_days(data) ==
    IF data.type = "list" THEN Ret(PyInt(MissingDaysLoop(data.items, 0)))
    ELSE Raise("TypeError")

(***************************************************************************)
(* calculate_consecutive_missing_days: one pass with a running counter,    *)
(* reset by every entry that is not None, and a running maximum.           *)
(***************************************************************************)
Max2(a, b) == IF a >= b THEN a ELSE b

\* variant: the running counter is not reset by a non-missing entry
RECURSIVE ConsecutiveLoop_NoReset(_, _, _)
ConsecutiveLoop_NoReset(data, consecutive_missing_days, max_consecutive_missing_days) ==
    IF data = <<>> THEN max_consecutive_missing_days
    ELSE IF Head(data) = PyNone
         THEN ConsecutiveLoop_NoReset(Tail(data), consecutive_missing_days + 1,
                  Max2(max_consecutive_missing_days, consecutive_missing_days + 1))
         ELSE ConsecutiveLoop_NoReset(Tail(data), consecutive_missing_days,
                                      max_consecutive_missing_days)

\* variant: every entry lengthens the run, missing or not
RECURSIVE ConsecutiveLoop_Any(_, _, _)
ConsecutiveLoop_Any(data, consecutive_missing_days, max_consecutive_missing_days) ==
    IF data = <<>> THEN max_consecutive_missing_days
    ELSE ConsecutiveLoop_Any(Tail(data), consecutive_missing_days + 1,
             Max2(max_consecutive_missing_days, consecutive_missing_days + 1))

RECURSIVE ConsecutiveLoop(_, _, _)
ConsecutiveLoop(data, consecutive_missing_days, max_consecutive_missing_days) ==
    IF data = <<>> THEN max_consecutive_missing_days
    ELSE IF Head(data) = PyNone
         THEN ConsecutiveLoop(Tail(data), consecutive_missing_days + 1,
                  Max2(max_consecutive_missing_days, consecutive_missing_days + 1))
         ELSE ConsecutiveLoop(Tail(data), 0, max_consecutive_missing_days)

calculate_consecutive_missing_days(data) ==
    IF data.type = "list" THEN Ret(PyInt(ConsecutiveLoop(data.items, 0, 0)))
    ELSE Raise("TypeError")

(***************************************************************************)
(* calculate_missing_data: the same count over the fetched records; a      *)
(* record without the data field raises KeyError.                          *)
(***************************************************************************)
RECURSIVE MissingDataLoop(_, _, _)
MissingDataLoop(es_hits, data_field, missing_data_count) ==
    IF es_hits = <<>> THEN Ret(PyInt(missing_data_count))
    ELSE IF data_field \notin DOMAIN Head(es_hits).properties
         THEN Raise("KeyError")
         ELSE MissingDataLoop(Tail(es_hits), data_field,
                  IF Head(es_hits).properties[data_field] = PyNone
                  THEN missing_data_count + 1 ELSE missing_data_count)

calculate_missing_data(es_hits, data_field) ==
    MissingDataLoop(es_hits, data_field, 0)

(***************************************************************************)
(* check_missing_data_options.  Python compares numbers by value, so an    *)
(* option equals the literal 5 when it is the int 5 or the float 5.0; a    *)
(* str never equals a number.  The percentage branches build their message *)
(* from the name percentage_missing_data, which is neither a parameter nor *)
(* a global of climate_stats.py: evaluating the f-string raises NameError. *)
(* For an option matched by no branch the local missing_data_option_status *)
(* is never bound and the return statement raises UnboundLocalError.  The  *)
(* except clause prints and re-raises the same exception.                  *)
(***************************************************************************)
PyEqInt(x, n) ==
    \/ x.type = "int" /\ x.val = n
    \/ x.type = "num" /\ x.val = n * Unit

PyEqStr(x, s) == x.type = "str" /\ x.val = s

\* the value of a number, in fixed point
NumVal(x) == IF x.type = "int" THEN x.val * Unit ELSE x.val

FilteredMessage(percentage, option) ==
    [type |-> "str",
     val |-> "The input missing data option filtered this result: percentage missing data > input missing data option",
     percentage |-> percentage,
     option |-> option]

missing_days_threshold == 11
consecutive_missing_days_threshold == 5

\* variant: the limit itself is filtered (>= instead of >)
PercentageBranch_Strict(input_missing_data_option, missing_data_percentage) ==
    IF NumVal(missing_data_percentage) >= NumVal(input_missing_data_option)
    THEN Raise("NameError")
    ELSE Ret(PyStr("OK"))

PercentageBranch(input_missing_data_option, missing_data_percentage) ==
    IF NumVal(missing_data_percentage) > NumVal(input_missing_data_option)
    THEN Raise("NameError")
    ELSE Ret(PyStr("OK"))

\* variant: both limits have to be reached (and instead of or)
WMOBranch_And(missing_days, consecutive_missing_days) ==
    IF missing_days.val = 0 \/ consecutive_missing_days.val = 0
    THEN Ret(PyStr("OK"))
    ELSE IF /\ missing_days.val >= missing_days_threshold
            /\ consecutive_missing_days.val >= consecutive_missing_days_threshold
         THEN Ret(PyStr("WMO criteria met: Missing or invalid month"))
         ELSE Ret(PyStr("OK"))

WMOBranch(missing_days, consecutive_missing_days) ==
    IF missing_days.val = 0 \/ consecutive_missing_days.val = 0
    THEN Ret(PyStr("OK"))
    ELSE IF \/ missing_days.val >= missing_days_threshold
            \/ consecutive_missing_days.val >= consecutive_missing_days_threshold
         THEN Ret(PyStr("WMO criteria met: Missing or invalid month"))
         ELSE Ret(PyStr("OK"))

\* variant: the status is preset to "None", so an unknown option returns it
check_missing_data_options_Default(input_missing_data_option, missing_data_percentage, missing_days, consecutive_missing_days) ==
    IF input_missing_data_option = PyNone THEN Ret(PyStr("None"))
    ELSE IF PyEqInt(input_missing_data_option, 5)
            \/ PyEqInt(input_missing_data_option, 10)
            \/ PyEqInt(input_missing_data_option, 15)
         THEN PercentageBranch(input_missing_data_option, missing_data_percentage)
    ELSE IF PyEqStr(input_missing_data_option, "WMO")
         THEN WMOBranch(missing_days, consecutive_missing_days)
    ELSE Ret(PyStr("None"))

check_missing_data_options(input_missing_data_option, missing_data_percentage, missing_days, consecutive_missing_days) ==
    IF input_missing_data_option = PyNone THEN Ret(PyStr("None"))
    ELSE IF PyEqInt(input_missing_data_option, 5)
         THEN PercentageBranch(input_missing_data_option, missing_data_percentage)
    ELSE IF PyEqInt(input_missing_data_option, 10)
         THEN PercentageBranch(input_missing_data_option, missing_data_percentage)
    ELSE IF PyEqInt(input_missing_data_option, 15)
         THEN PercentageBranch(input_missing_data_option, missing_data_percentage)
    ELSE IF PyEqStr(input_missing_data_option, "WMO")
         THEN WMOBranch(missing_days, consecutive_missing_days)
    ELSE Raise("UnboundLocalError")

(***************************************************************************)
(* check_missing_data_options of test.py: the same branches; its parameter *)
(* is named percentage_missing_data, so the message of a filtered result   *)
(* is formatted and returned.                                              *)
(***************************************************************************)
test_PercentageBranch(input_missing_data_option, percentage_missing_data) ==
    IF NumVal(percentage_missing_data) > NumVal(input_missing_data_option)
    THEN Ret(FilteredMessage(percentage_missing_data, input_missing_data_option))
    ELSE Ret(PyStr("OK"))

test_check_missing_data_options(input_missing_data_option, percentage_missing_data, missing_days, consecutive_missing_days) ==
    IF input_missing_data_option = PyNone THEN Ret(PyStr("None"))
    ELSE IF PyEqInt(input_missing_data_option, 5)
         THEN test_PercentageBranch(input_missing_data_option, percentage_missing_data)
    ELSE IF PyEqInt(input_missing_data_option, 10)
         THEN test_PercentageBranch(input_missing_data_option, percentage_missing_data)
    ELSE IF PyEqInt(input_missing_data_option, 15)
         THEN test_PercentageBranch(input_missing_data_option, percentage_missing_data)
    ELSE IF PyEqStr(input_missing_data_option, "WMO")
         THEN WMOBranch(missing_days, consecutive_missing_days)
    ELSE Raise("UnboundLocalError")

(***************************************************************************)
(* calculate_statistics.  calculations is the container the caller passed: *)
(* only membership of the six names is tested, so it is modelled by the    *)
(* set of names it contains (or PyNone when the caller passed None, on     *)
(* which `in` raises TypeError).  Comparing a number with a None threshold *)
(* raises TypeError as well.                                               *)
(***************************************************************************)
PyNames(names) == [type |-> "list", items |-> names]

RECURSIVE SkipNone(_)
SkipNone(values) ==
    IF values = <<>> THEN <<>>
    ELSE IF Head(values) = PyNone THEN SkipNone(Tail(values))
         ELSE <<Head(values)>> \o SkipNone(Tail(values))

RECURSIVE SumVals(_)
SumVals(values) ==
    IF values = <<>> THEN 0 ELSE Head(values).val + SumVals(Tail(values))

\* variant: the first value is taken as the maximum
MaxVals_Head(values) == Head(values).val

RECURSIVE MaxVals(_)
MaxVals(values) ==
    IF Len(values) = 1 THEN Head(values).val
    ELSE LET m == MaxVals(Tail(values))
         IN  IF m > Head(values).val THEN m ELSE Head(values).val

\* variant: the comparison is the one of max
RECURSIVE MinVals_Greater(_)
MinVals_Greater(values) ==
    IF Len(values) = 1 THEN Head(values).val
    ELSE LET m == MinVals_Greater(Tail(values))
         IN  IF m > Head(values).val THEN m ELSE Head(values).val

RECURSIVE MinVals(_)
MinVals(values) ==
    IF Len(values) = 1 THEN Head(values).val
    ELSE LET m == MinVals(Tail(values))
         IN  IF m < Head(values).val THEN m ELSE Head(values).val

\* variant: a value equal to the threshold counts as above it
RECURSIVE CountHigher_OrEqual(_, _)
CountHigher_OrEqual(values, t) ==
    IF values = <<>> THEN 0
    ELSE (IF Head(values).val >= t THEN 1 ELSE 0)
             + CountHigher_OrEqual(Tail(values), t)

RECURSIVE CountHigher(_, _)
CountHigher(values, t) ==
    IF values = <<>> THEN 0
    ELSE (IF Head(values).val > t THEN 1 ELSE 0) + CountHigher(Tail(values), t)

\* variant: a value equal to the threshold counts as below it
RECURSIVE CountLower_OrEqual(_, _)
CountLower_OrEqual(values, t) ==
    IF values = <<>> THEN 0
    ELSE (IF Head(values).val <= t THEN 1 ELSE 0)
             + CountLower_OrEqual(Tail(values), t)

RECURSIVE CountLower(_, _)
CountLower(values, t) ==
    IF values = <<>> THEN 0
    ELSE (IF Head(values).val < t THEN 1 ELSE 0) + CountLower(Tail(values), t)

\* line 637: `value == threshold`; no number equals a None threshold
RECURSIVE CountEqual(_, _)
CountEqual(values, threshold) ==
    IF values = <<>> \/ threshold = PyNone THEN 0
    ELSE (IF Head(values).val = NumVal(threshold) THEN 1 ELSE 0)
             + CountEqual(Tail(values), threshold)

\* variant: the name is tested with a spelling mistake
NameCountAbove_Typo == "count above treshold"

\* the names tested at lines 632, 634 and 636
NameCountAbove == "count above threshold"
NameCountBelow == "count below threshold"
NameCountEqual == "count equal threshold"

\* the names whose count orders a value and the threshold (`>` at line
\* 633, `<` at line 635), which raises TypeError on a None threshold
OrderingNames == {NameCountAbove, NameCountBelow}

\* variant: the fields start as 0 instead of None
InitialValue_Zero == PyInt(0)

\* lines 616-621: every optional field starts as None
InitialValue == PyNone

\* a field of the report: computed when the list is not empty and the
\* calculation was requested; line 640 resets all of them for an empty list
StatField(V, wanted, value) ==
    IF V # <<>> THEN (IF wanted THEN value ELSE InitialValue) ELSE PyNone

\* variant: the total is taken before the missing entries are dropped
TotalOf_Unfiltered(values_results_list, V) == Len(values_results_list)

\* "total": len(values_results_list), taken after the list was rebound to V
TotalOf(values_results_list, V) == Len(V)

calculate_statistics(calculations, values_results_list, manual_value_threshold) ==
    LET V == SkipNone(values_results_list)
        t == manual_value_threshold
        Want(name) == name \in calculations.items
    IN  IF V # <<>> /\ calculations.type = "NoneType" THEN Raise("TypeError")
        ELSE IF /\ V # <<>>
                /\ t.type = "NoneType"
                /\ calculations.items \cap OrderingNames # {}
             THEN Raise("TypeError")
        ELSE Ret(
          [total |-> PyInt(TotalOf(values_results_list, V)),
           mean |-> StatField(V, Want("mean"),
                              PyNum(Round2(SumVals(V), Unit * Len(V),
                                           DivSide(SumVals(V), Unit * Len(V))))),
           max |-> StatField(V, Want("max"), PyNum(MaxVals(V))),
           min |-> StatField(V, Want("min"), PyNum(MinVals(V))),
           threshold |-> t,
           count_above |-> StatField(V, Want(NameCountAbove),
                                     PyInt(CountHigher(V, NumVal(t)))),
           count_below |-> StatField(V, Want(NameCountBelow),
                                     PyInt(CountLower(V, NumVal(t)))),
           count_equal |-> StatField(V, Want(NameCountEqual),
                                     PyInt(CountEqual(V, t)))])

(***************************************************************************)
(* build_query.  mapping is a dict (a function on its keys).  A truthy     *)
(* bbox is subscripted with "top_left": on a list or a str that raises     *)
(* TypeError, which the except clause re-raises.                           *)
(***************************************************************************)
PyBox(top, left, bottom, right) ==
    [type |-> "dict",
     top_left |-> [lat |-> top, lon |-> left],
     bottom_right |-> [lat |-> bottom, lon |-> right]]

GeoBoundingBox(bbox) ==
    [geo_bounding_box |->
        [geometry |-> [top_left |-> [lat |-> bbox.top_left.lat,
                                     lon |-> bbox.top_left.lon],
                       bottom_right |-> [lat |-> bbox.bottom_right.lat,
                                         lon |-> bbox.bottom_right.lon]]]]

Terms(field, values) == [terms |-> [field |-> "properties." \o field, values |-> values]]

\* variant: the list is not tested, a clause is added for an empty list too
TermsIf_Always(mapping, key, values) ==
    IF key \in DOMAIN mapping
    THEN <<Terms(mapping[key], values)>> ELSE <<>>

TermsIf(mapping, key, values) ==
    IF Truthy(values) /\ key \in DOMAIN mapping
    THEN <<Terms(mapping[key], values)>> ELSE <<>>

build_query(mapping, bbox, stations_ids, years, months, days, hours) ==
    IF Truthy(bbox) /\ bbox.type # "dict" THEN Raise("TypeError")
    ELSE Ret([type |-> "dict",
              must |-> TermsIf(mapping, "STN_IDName", stations_ids)
                       \o TermsIf(mapping, "yearName", years)
                       \o TermsIf(mapping, "monthName", months)
                       \o TermsIf(mapping, "dayName", days)
                       \o TermsIf(mapping, "hourName", hours),
              filter |-> IF Truthy(bbox) THEN GeoBoundingBox(bbox) ELSE Unbound])

\* test.py, lines 46-53: the station, year and month names are read from the
\* mapping without a test, which raises KeyError when the name is not there
Unmapped(mapping, key, values) == Truthy(values) /\ key \notin DOMAIN mapping

\* build_query of test.py
test_build_query(mapping, bbox, station_ids, years, months, days, hours) ==
    IF Truthy(bbox) /\ bbox.type # "dict" THEN Raise("TypeError")
    ELSE IF \/ Unmapped(mapping, "STN_IDName", station_ids)
            \/ Unmapped(mapping, "yearName", years)
            \/ Unmapped(mapping, "monthName", months)
         THEN Raise("KeyError")
    ELSE Ret([type |-> "dict",
              must |-> TermsIf(mapping, "STN_IDName", station_ids)
                       \o TermsIf(mapping, "yearName", years)
                       \o TermsIf(mapping, "monthName", months)
                       \o TermsIf(mapping, "dayName", days)
                       \o TermsIf(mapping, "hourName", hours),
              filter |-> IF Truthy(bbox) THEN GeoBoundingBox(bbox) ELSE Unbound])

(***************************************************************************)
(* climate_stats: the mapping table and the query (lines 728-794).  The    *)
(* list-valued entries of the table are never read; they are kept as one   *)
(* comma-separated string.                                                 *)
(***************************************************************************)
data_mapping ==
    [climate_normals_data |->
        [STN_IDName |-> "STN_ID", property |-> "VALUE", monthName |-> "MONTH"],
     climate_public_hourly_data |->
        [STN_IDName |-> "STN_ID", property |-> "TEMP", yearName |-> "LOCAL_YEAR",
         monthName |-> "LOCAL_MONTH", dayName |-> "LOCAL_DAY",
         hourName |-> "LOCAL_HOUR"],
     climate_public_daily_data |->
        [STN_IDName |-> "STN_ID", property |-> "TOTAL_PRECIPITATION,TOTAL_SNOW,TOTAL_RAIN",
         yearName |-> "LOCAL_YEAR", monthName |-> "LOCAL_MONTH",
         dayName |-> "LOCAL_DAY"],
     climate_public_climate_summary |->
        [STN_IDName |-> "STN_ID",
         property |-> "TOTAL_PRECIPITATION,TOTAL_SNOWFALL,NORMAL_SNOWFALL,NORMAL_SUNSHINE,NORMAL_PRECIPITATION,MAX_TEMPERATURE,MIN_TEMPERATURE,MEAN_TEMPERATURE",
         fieldName_totalDays |-> "COOLING_DEGREE_DAYS,DAYS_WITH_PRECIP_GE_1MM,HEATING_DEGREE_DAYS",
         yearName |-> "LOCAL_YEAR", monthName |-> "LOCAL_MONTH"]]

\* data_mapping.get(str(index), {})
MappingOf(index) ==
    IF index \in DOMAIN data_mapping THEN data_mapping[index] ELSE <<>>

\* line 794: build_query(mapping, stations_ids, bbox, years, months, days, hours)
QueryOf(a) ==
    build_query(MappingOf(a.index), a.stations_ids, a.bbox,
                a.years, a.months, a.days, a.hours)


(***************************************************************************)
(* create_geojson_with_stats: one Point feature per station tuple.         *)
(* Iterating a station list that is None raises TypeError.                 *)
(***************************************************************************)
\* variant: the name and the id of the station are exchanged
Feature_Swapped(station_info) ==
    [type |-> "Feature",
     properties |-> [name |-> station_info[2], station_id |-> station_info[1]],
     geometry |-> [type |-> "Point", coordinates |-> station_info[3]]]

Feature(station_info) ==
    [type |-> "Feature",
     properties |-> [name |-> station_info[1], station_id |-> station_info[2]],
     geometry |-> [type |-> "Point", coordinates |-> station_info[3]]]

create_geojson_with_stats(station_data, global_stats, output_info) ==
    IF station_data.type # "list" THEN Raise("TypeError")
    ELSE Ret([type |-> "FeatureCollection",
              info |-> output_info,
              global_stats |-> global_stats,
              features |-> [i \in 1..Len(station_data.items) |->
                                Feature(station_data.items[i])]])

(***************************************************************************)
(* The entry points and the outcome of climate_stats.                      *)
(***************************************************************************)
\* the exception classes `except ValueError` catches: the class and its
\* subclasses
ValueErrors == {PyStr("ValueError"), PyStr("UnicodeDecodeError")}

\* text formatted from a prefix and str() of an exception
ErrorText(prefix, err) == [type |-> "str", val |-> prefix, of |-> err]

\* line 452: the line build_query prints, f"Mapping: {mapping}"
MappingText(mapping) == [type |-> "str", val |-> "Mapping: ", of |-> mapping]

\* line 603: the line check_missing_data_options prints before it raises
\* again, formatted from the option and the exception
OptionErrorText(input_missing_data_option, err) ==
    [type |-> "str", val |-> "An error occurred, ",
     option |-> input_missing_data_option,
     then |-> " doesn't provide an acceptable option: ", of |-> err]

\* lines 452 and 477: what a call of build_query prints; the only exception,
\* the subscript of bbox, is raised before line 452
PrintsOfBuildQuery(mapping, r) ==
    IF r.kind = "raise"
    THEN <<ErrorText("An error occurred in build_query: ", r.value)>>
    ELSE <<MappingText(mapping)>>

\* variant: every exception is turned into the error body
ExecuteResponse_CatchAll(outcome) ==
    IF outcome.kind = "return"
    THEN Ret(<<PyStr("application/json"), outcome.value>>)
    ELSE Ret(<<[type |-> "dict",
                error |-> ErrorText("Process execution error: ", outcome.value),
                error_code |-> PyStr("PROCESS_EXECUTION_ERROR")],
               PyInt(500)>>)

\* ClimateStatsProcessor.execute, lines 998-1021
ExecuteResponse(outcome) ==
    IF outcome.kind = "return"
    THEN Ret(<<PyStr("application/json"), outcome.value>>)
    ELSE IF outcome.value \in ValueErrors
    THEN Ret(<<[type |-> "dict",
                error |-> ErrorText("Process execution error: ", outcome.value),
                error_code |-> PyStr("PROCESS_EXECUTION_ERROR")],
               PyInt(500)>>)
    ELSE outcome

\* climate_stats_cli, lines 943-954, as the lines of the two streams after
\* the call of climate_stats, which has printed `printed`: the output is
\* echoed as JSON text (logging.info of line 950 is below the level of the
\* root logger and writes nothing); an exception is logged by logging.error
\* (line 952, on the error stream), echoed on the error stream (line 953)
\* and raised again
CliResponse(outcome, printed) ==
    IF outcome.kind = "return"
    THEN [stdout |-> Append(printed,
                            [type |-> "str", dumps_of |-> outcome.value]),
          stderr |-> <<>>, outcome |-> Ret(PyNone)]
    ELSE [stdout |-> printed,
          stderr |-> <<ErrorText("ERROR:root:Error processing climate statistics: ",
                                 outcome.value),
                       ErrorText("Error: ", outcome.value)>>,
          outcome |-> outcome]

(***************************************************************************)
(* climate_stats, lines 805-811: the value list, one entry per record in   *)
(* fetched order, None kept; a record without the property raises KeyError.*)
(***************************************************************************)
\* variant: a record whose property is None adds no entry to the list
RECURSIVE ValuesLoop_DropNone(_, _, _)
ValuesLoop_DropNone(es_hits, property, valuesResultsList) ==
    IF es_hits = <<>>
    THEN [list |-> PyList(valuesResultsList), outcome |-> Unbound]
    ELSE IF property \notin DOMAIN Head(es_hits).properties
         THEN [list |-> PyList(valuesResultsList), outcome |-> Raise("KeyError")]
         ELSE ValuesLoop_DropNone(Tail(es_hits), property,
                  IF Head(es_hits).properties[property] = PyNone
                  THEN valuesResultsList
                  ELSE Append(valuesResultsList,
                              Head(es_hits).properties[property]))

\* the list as the loop leaves it, and the KeyError that ended the loop if
\* a record lacks the property: the list then holds the values before it
RECURSIVE ValuesLoop(_, _, _)
ValuesLoop(es_hits, property, valuesResultsList) ==
    IF es_hits = <<>>
    THEN [list |-> PyList(valuesResultsList), outcome |-> Unbound]
    ELSE IF property \notin DOMAIN Head(es_hits).properties
         THEN [list |-> PyList(valuesResultsList), outcome |-> Raise("KeyError")]
         ELSE ValuesLoop(Tail(es_hits), property,
                  Append(valuesResultsList, Head(es_hits).properties[property]))

(***************************************************************************)
(* climate_stats, lines 826-898.  The locals start as lines 776-784 set    *)
(* them (missing_days, statistics_result and output_info are not bound     *)
(* yet); each step of the chain fills its locals or records the exception  *)
(* that ends the call, after which no later step runs.                     *)
(***************************************************************************)
InitialLocals ==
    [valuesResultsList |-> Unbound,
     missing_data |-> PyNone,
     missing_data_percentage |-> PyNone,
     missing_days |-> Unbound,
     consecutive_missing_days |-> PyInt(0),
     missingParameters |-> PyNone,
     unique_stations |-> PyNone,
     statistics_result |-> Unbound,
     output_info |-> Unbound,
     outcome |-> Unbound,
     stdout |-> <<>>]

Ended(f) == f.outcome # Unbound

\* the invocation ends with the exception of r, after a function or a
\* handler of climate_stats has printed `text` (print of an except clause)
RaisedAfterPrint(f, r, text) ==
    [f EXCEPT !.outcome = r, !.stdout = Append(@, text)]

\* variant: an empty match is reported as 0 percent instead of dividing
MissingDataPercentage_Guarded(missing_data, es_count) ==
    IF es_count = 0 THEN Ret(PyNum(0))
    ELSE Ret(PyNum(Round2(missing_data * 100, es_count,
                          PercentSide(missing_data, es_count))))

\* variant: the percentage is cut to 2 decimals instead of rounded
MissingDataPercentage_Truncate(missing_data, es_count) ==
    IF es_count = 0 THEN Raise("ZeroDivisionError")
    ELSE Ret(PyNum(((missing_data * 10000) \div es_count) * (Unit \div 100)))

\* line 827: round(((missing_data / es_count) * 100), 2)
MissingDataPercentage(missing_data, es_count) ==
    IF es_count = 0 THEN Raise("ZeroDivisionError")
    ELSE Ret(PyNum(Round2(missing_data * 100, es_count,
                          PercentSide(missing_data, es_count))))

\* lines 826-827
StepMissingData(f, a, es_hits, es_count) ==
    LET r == calculate_missing_data(es_hits, a.property)
        p == MissingDataPercentage(r.value.val, es_count.val)
    IN  IF Ended(f) THEN f
        ELSE IF r.kind = "raise"
             THEN RaisedAfterPrint(f, r,
                      ErrorText("An error occurred in calculate_missing_data: ",
                                r.value))
        ELSE IF p.kind = "raise"
             THEN [f EXCEPT !.missing_data = r.value, !.outcome = p]
        ELSE [f EXCEPT !.missing_data = r.value,
                       !.missing_data_percentage = p.value]

\* line 830
StepMissingDays(f) ==
    LET r == calculate_missing_days(f.valuesResultsList)
    IN  IF Ended(f) THEN f
        ELSE IF r.kind = "raise"
             THEN RaisedAfterPrint(f, r,
                      ErrorText("An error occurred in calculate_missing_days: ",
                                r.value))
        ELSE [f EXCEPT !.missing_days = r.value]

\* line 833: the argument is missing_days, the count, not the value list
StepConsecutiveMissingDays(f) ==
    LET r == calculate_consecutive_missing_days(f.missing_days)
    IN  IF Ended(f) THEN f
        ELSE IF r.kind = "raise"
             THEN RaisedAfterPrint(f, r,
                      ErrorText("An error occurred in calculate_consecutive_missing_days: ",
                                r.value))
        ELSE [f EXCEPT !.consecutive_missing_days = r.value]

\* lines 836-838
StepCheckOptions(f, a) ==
    LET r == check_missing_data_options(a.missing_data_option,
                 f.missing_data_percentage, f.missing_days,
                 f.consecutive_missing_days)
    IN  IF Ended(f) THEN f
        ELSE IF r.kind = "raise"
             THEN RaisedAfterPrint(f, r,
                      OptionErrorText(a.missing_data_option, r.value))
        ELSE [f EXCEPT !.missingParameters = r.value]

\* lines 848-857: the distinct station tuples, in order of first occurrence
\* variant: a station is known as soon as its name is known
RECURSIVE UniqueStationsLoop_ByName(_, _)
UniqueStationsLoop_ByName(es_hits, unique_stations) ==
    IF es_hits = <<>> THEN unique_stations
    ELSE LET hit == Head(es_hits)
             station_info == <<hit.properties["STATION_NAME"],
                               hit.properties["STN_ID"],
                               hit.geometry.coordinates>>
         IN  UniqueStationsLoop_ByName(Tail(es_hits),
                 IF \E i \in 1..Len(unique_stations) :
                        unique_stations[i][1] = station_info[1]
                 THEN unique_stations
                 ELSE Append(unique_stations, station_info))

RECURSIVE UniqueStationsLoop(_, _)
UniqueStationsLoop(es_hits, unique_stations) ==
    IF es_hits = <<>> THEN unique_stations
    ELSE LET hit == Head(es_hits)
             station_info == <<hit.properties["STATION_NAME"],
                               hit.properties["STN_ID"],
                               hit.geometry.coordinates>>
         IN  UniqueStationsLoop(Tail(es_hits),
                 IF \E i \in 1..Len(unique_stations) :
                        unique_stations[i] = station_info
                 THEN unique_stations
                 ELSE Append(unique_stations, station_info))

\* lines 847-857: the station list is built only when the value list is
\* not empty; otherwise unique_stations keeps the None of line 784
UniqueStations(valuesResultsList, es_hits, unique_stations) ==
    IF Truthy(valuesResultsList)
    THEN PyList(UniqueStationsLoop(es_hits, <<>>))
    ELSE unique_stations

\* lines 846-864: skipped as a whole when the value list is empty; an
\* exception of calculate_statistics is printed by the handler of line 863
StepStatistics(f, a, es_hits) ==
    LET r == calculate_statistics(a.calculations, f.valuesResultsList.items,
                                  a.threshold)
        stations == UniqueStations(f.valuesResultsList, es_hits,
                                   f.unique_stations)
    IN  IF Ended(f) THEN f
        ELSE IF ~ Truthy(f.valuesResultsList) THEN f
        ELSE IF r.kind = "raise"
             THEN RaisedAfterPrint([f EXCEPT !.unique_stations = stations], r,
                                   ErrorText("An error occurred: ", r.value))
        ELSE [f EXCEPT !.unique_stations = stations,
                       !.statistics_result = r.value]

\* lines 873-882: len(unique_stations) raises TypeError on None
StepOutputInfo(f, a) ==
    IF Ended(f) THEN f
    ELSE IF f.unique_stations.type # "list"
         THEN [f EXCEPT !.outcome = Raise("TypeError")]
    ELSE [f EXCEPT !.output_info =
             [INDEX |-> a.index,
              PROPERTY |-> a.property,
              MISSING_DATA_OPTION |-> a.missing_data_option,
              MISSING_DATA_TOTAL |-> f.missing_data,
              MISSIND_DATA_PERCENTAGE |-> f.missing_data_percentage,
              MISSING_DATA_STATUS |-> f.missingParameters,
              UNIQUE_STATIONS_COUNT |-> PyInt(Len(f.unique_stations.items))]]

\* lines 892-898: the geojson dict, turned into text by str() with the
\* single quotes replaced; the text is kept as the structure it prints
StepOutputs(f) ==
    LET r == create_geojson_with_stats(f.unique_stations, f.statistics_result,
                                       f.output_info)
    IN  IF Ended(f) THEN f
        ELSE IF f.statistics_result = Unbound
             THEN [f EXCEPT !.outcome = Raise("UnboundLocalError")]
        ELSE IF r.kind = "raise"
             THEN RaisedAfterPrint(f, r,
                      ErrorText("An error occurred in create_geojson_with_stats: ",
                                r.value))
        ELSE [f EXCEPT !.outcome = Ret([type |-> "str", text_of |-> r.value])]

MissingDataToOutputs(f, a, es_hits, es_count) ==
    StepOutputs(
      StepOutputInfo(
        StepStatistics(
          StepCheckOptions(
            StepConsecutiveMissingDays(
              StepMissingDays(
                StepMissingData(f, a, es_hits, es_count))),
            a),
          a, es_hits),
        a))


(***************************************************************************)
(* Inputs of the direct calls.                                             *)
(***************************************************************************)
SeqsUpTo(S, n) == UNION {[1..k -> S] : k \in 0..n}

\* None, 0.0, 0.125 and -1.0
Values == {PyNone, PyNum(0), PyNum(25), PyNum(0 - Unit)}

\* the options the docstring names, and values outside them
Policies ==
    {PyNone, PyInt(5), PyInt(10), PyInt(15), PyStr("WMO"),
     PyInt(0), PyInt(7), PyStr("None"), PyStr("5"), PyStr("wmo")}

\* percentages h / 100 around the three limits
Percentages ==
    {PyNum(2 * h) : h \in {0, 499, 500, 501, 999, 1000, 1001,
                           1499, 1500, 1501, 3333, 10000}}

\* the names a caller may request
RequestedCounts ==
    {"count above threshold", "count below threshold", "count equal threshold"}

RecognizedNames ==
    {"mean", "max", "min"} \cup RequestedCounts

\* names the function does not test: the names of the report's fields
UnknownNames == {"count_above", "count_below", "count_equal"}

Calculations ==
    {PyNames(c) : c \in SUBSET RecognizedNames}
        \cup {PyNames(UnknownNames \cup c) :
                  c \in {{}, {"mean", "min"}, RequestedCounts, RecognizedNames}}
        \cup {PyNames({"count_above"}), PyNone}

Thresholds == {PyNum(0), PyNum(25), PyNone}

StationA == [name |-> PyStr("A"), id |-> PyInt(1), coordinates |-> <<0, 0>>]
StationB == [name |-> PyStr("B"), id |-> PyInt(2), coordinates |-> <<1, 1>>]

\* one record of es_result['hits']['hits'], carrying the property `field`
Hit(field, value, station) ==
    [properties |-> (field :> value) @@
                    [STATION_NAME |-> station.name, STN_ID |-> station.id],
     geometry |-> [coordinates |-> station.coordinates]]

\* stations that differ from StationA in one field only
StationA2 == [name |-> PyStr("A"), id |-> PyInt(1), coordinates |-> <<1, 1>>]
StationA3 == [name |-> PyStr("A"), id |-> PyInt(2), coordinates |-> <<0, 0>>]
StationA4 == [name |-> PyStr("B"), id |-> PyInt(1), coordinates |-> <<0, 0>>]

Stations == {StationA, StationB, StationA2, StationA3, StationA4}

\* the tuple lines 850-854 build for a record
StationInfo(station) == <<station.name, station.id, station.coordinates>>

\* reports and infos handed to create_geojson_with_stats
Reports ==
    {calculate_statistics(PyNames(c), <<PyNum(25), PyNone>>, PyNum(0)).value :
        c \in {{"mean"}, {"max", "min"}}}

OutputInfos ==
    {[INDEX |-> "climate_public_daily_data", PROPERTY |-> "TOTAL_PRECIPITATION",
      MISSING_DATA_OPTION |-> o, MISSING_DATA_TOTAL |-> PyInt(1),
      MISSIND_DATA_PERCENTAGE |-> PyNum(50 * Unit),
      MISSING_DATA_STATUS |-> PyStr("OK"),
      UNIQUE_STATIONS_COUNT |-> PyInt(1)] : o \in {PyNone, PyStr("WMO")}}

\* dataset names: the four of the table and one it does not hold
DatasetNames == DOMAIN data_mapping \cup {"climate_station_information"}

Boxes == {PyNone, PyBox(80, 0 - 141, 25, 0 - 138), PyStr("80,-141,25,-138")}

IdLists == {PyNone, PyList(<<>>), PyList(<<5680, 5682>>)}

NumberLists == {PyList(<<>>), PyList(<<11, 12>>)}

\* what the call of climate_stats inside execute may end with
Outcomes ==
    {Ret([type |-> "str", text_of |-> [type |-> "FeatureCollection"]])}
        \cup {Raise(e) : e \in {"ValueError", "UnicodeDecodeError", "TypeError",
                                 "ZeroDivisionError", "KeyError"}}

(***************************************************************************)
(* Direct calls of the functions: one call per behaviour; the action draws *)
(* the arguments and records the call and its outcome.                     *)
(***************************************************************************)
NoCall == [fn |-> "none"]

CallCalculateMissingDays ==
    /\ call = NoCall
    /\ \E data \in SeqsUpTo(Values, MaxLen) :
        /\ call' = [fn |-> "calculate_missing_days", data |-> PyList(data)]
        /\ ret' = calculate_missing_days(PyList(data))
        /\ UNCHANGED csvars

CallCalculateConsecutiveMissingDays ==
    /\ call = NoCall
    /\ \E data \in {PyList(d) : d \in SeqsUpTo(Values, MaxLen)}
                    \cup {PyInt(n) : n \in 0..MaxLen} :
        /\ call' = [fn |-> "calculate_consecutive_missing_days", data |-> data]
        /\ ret' = calculate_consecutive_missing_days(data)
        /\ UNCHANGED csvars

CallCalculateMissingData ==
    /\ call = NoCall
    /\ \E data \in SeqsUpTo(Values, MaxValues), data_field \in {"TEMP", "VALUE"} :
        LET es_hits == [i \in 1..Len(data) |-> Hit("TEMP", data[i], StationA)]
        IN  /\ call' = [fn |-> "calculate_missing_data", es_hits |-> es_hits,
                        data_field |-> data_field]
            /\ ret' = calculate_missing_data(es_hits, data_field)
            /\ UNCHANGED csvars

CallCheckMissingDataOptions ==
    /\ call = NoCall
    /\ \E option \in Policies, percentage \in Percentages,
       days \in 0..MaxMissingDays, run \in 0..MaxRun :
        /\ call' = [fn |-> "check_missing_data_options", option |-> option,
                    percentage |-> percentage, missing_days |-> days,
                    consecutive_missing_days |-> run]
        /\ ret' = check_missing_data_options(option, percentage,
                                             PyInt(days), PyInt(run))
        /\ UNCHANGED csvars

CallTestCheckMissingDataOptions ==
    /\ call = NoCall
    /\ \E option \in Policies, percentage \in Percentages,
       days \in 0..MaxMissingDays, run \in 0..MaxRun :
        /\ call' = [fn |-> "test.check_missing_data_options", option |-> option,
                    percentage |-> percentage, missing_days |-> days,
                    consecutive_missing_days |-> run]
        /\ ret' = test_check_missing_data_options(option, percentage,
                                                  PyInt(days), PyInt(run))
        /\ UNCHANGED csvars

CallCalculateStatistics ==
    /\ call = NoCall
    /\ \E calculations \in Calculations, data \in SeqsUpTo(Values, MaxValues),
       threshold \in Thresholds :
        /\ call' = [fn |-> "calculate_statistics", calculations |-> calculations,
                    values |-> data, threshold |-> threshold]
        /\ ret' = calculate_statistics(calculations, data, threshold)
        /\ UNCHANGED csvars

\* a record that lacks the requested property
HitWithout(station) ==
    [properties |-> [STATION_NAME |-> station.name, STN_ID |-> station.id],
     geometry |-> [coordinates |-> station.coordinates]]

Records ==
    {Hit("TOTAL_PRECIPITATION", PyNone, StationA),
     Hit("TOTAL_PRECIPITATION", PyNum(0), StationA),
     Hit("TOTAL_PRECIPITATION", PyNum(25), StationB),
     HitWithout(StationB)}

\* lines 847-857 of climate_stats, applied to a page of records and the
\* value list lines 806-811 build from it, with the None of line 784
CallUniqueStations ==
    /\ call = NoCall
    /\ \E stations \in SeqsUpTo(Stations, MaxHits) :
        LET es_hits == [i \in 1..Len(stations) |->
                           Hit("TOTAL_PRECIPITATION", PyNum(0), stations[i])]
            valuesResultsList ==
                ValuesLoop(es_hits, "TOTAL_PRECIPITATION", <<>>).list
        IN  /\ call' = [fn |-> "unique_stations", es_hits |-> es_hits]
            /\ ret' = Ret(UniqueStations(valuesResultsList, es_hits,
                                         InitialLocals.unique_stations))
    /\ UNCHANGED csvars

CallCreateGeojson ==
    /\ call = NoCall
    /\ \E stations \in SeqsUpTo(Stations, MaxHits), global_stats \in Reports,
          output_info \in OutputInfos :
        LET station_data == PyList([i \in 1..Len(stations) |->
                                       StationInfo(stations[i])])
        IN  /\ call' = [fn |-> "create_geojson_with_stats",
                        station_data |-> station_data,
                        global_stats |-> global_stats,
                        output_info |-> output_info]
            /\ ret' = create_geojson_with_stats(station_data, global_stats, output_info)
    /\ UNCHANGED csvars

CallBuildQuery ==
    /\ call = NoCall
    /\ \E index \in DatasetNames, bbox \in Boxes, stations_ids \in IdLists,
          years \in NumberLists, months \in NumberLists,
          days \in NumberLists, hours \in NumberLists :
        /\ call' = [fn |-> "build_query", index |-> index, bbox |-> bbox,
                    stations_ids |-> stations_ids, years |-> years,
                    months |-> months, days |-> days, hours |-> hours]
        /\ ret' = build_query(MappingOf(index), bbox, stations_ids,
                              years, months, days, hours)
    /\ UNCHANGED csvars

CallTestBuildQuery ==
    /\ call = NoCall
    /\ \E index \in DatasetNames, bbox \in Boxes, station_ids \in IdLists,
          years \in NumberLists, months \in NumberLists,
          days \in NumberLists, hours \in NumberLists :
        /\ call' = [fn |-> "test.build_query", index |-> index, bbox |-> bbox,
                    stations_ids |-> station_ids, years |-> years,
                    months |-> months, days |-> days, hours |-> hours]
        /\ ret' = test_build_query(MappingOf(index), bbox, station_ids,
                                   years, months, days, hours)
    /\ UNCHANGED csvars

\* execute around a call of climate_stats that ends with `outcome`
CallExecute ==
    /\ call = NoCall
    /\ \E outcome \in Outcomes :
        /\ call' = [fn |-> "execute", outcome |-> outcome]
        /\ ret' = ExecuteResponse(outcome)
    /\ UNCHANGED csvars

Init ==
    /\ call = NoCall
    /\ ret = Ret(PyNone)
    /\ pc = "idle"
    /\ request = Unbound
    /\ args = Unbound
    /\ query = PyNone
    /\ es_result = PyNone
    /\ locals = InitialLocals
    /\ response = Unbound

NextFn ==
    \/ CallCalculateMissingDays
    \/ CallCalculateConsecutiveMissingDays
    \/ CallCalculateMissingData
    \/ CallCheckMissingDataOptions
    \/ CallCalculateStatistics
    \/ CallUniqueStations
    \/ CallCreateGeojson
    \/ CallBuildQuery
    \/ CallTestBuildQuery
    \/ CallExecute
    \/ CallTestCheckMissingDataOptions

SpecFn == Init /\ [][NextFn]_vars

(***************************************************************************)
(* The two entry points.  A parameter the caller did not give is Absent.   *)
(* climate_stats_cli receives what click hands over: the declared default  *)
(* for an option that was not given ('None', the str, for                  *)
(* --missing_data_option; 0 for --threshold; [] for the date filters;      *)
(* None for --bbox and --stations_ids) and the text otherwise, and calls   *)
(* climate_stats with str(index), str(property) and float(threshold).      *)
(* ClimateStatsProcessor.execute reads each parameter with data.get, so an *)
(* absent key is None.                                                     *)
(***************************************************************************)
Absent == [type |-> "absent"]

ClickOption(given, default) == IF given = Absent THEN default ELSE given

\* What click hands over for an option declared `default=[]` without a type
\* (lines 915-918) that is not given depends on the click installed, and the
\* repository pins none: the list itself, or the list converted through the
\* STRING type, the str '[]' (click 8).
EmptyDefaults == {PyList(<<>>), PyStr("[]")}

DataGet(given) == IF given = Absent THEN PyNone ELSE given

\* float(threshold) of the int click parsed
FloatOf(x) == PyNum(NumVal(x))

CliArgs(given, empty) ==
    [index |-> given.index,
     calculations |-> given.calculations,
     property |-> given.property,
     bbox |-> ClickOption(given.bbox, PyNone),
     stations_ids |-> ClickOption(given.stations_ids, PyNone),
     threshold |-> FloatOf(ClickOption(given.threshold, PyInt(0))),
     missing_data_option |-> ClickOption(given.missing_data_option, PyStr("None")),
     years |-> ClickOption(given.years, empty),
     months |-> ClickOption(given.months, empty),
     days |-> ClickOption(given.days, empty),
     hours |-> ClickOption(given.hours, empty)]

ExecuteArgs(data) ==
    [index |-> data.index,
     calculations |-> DataGet(data.calculations),
     property |-> data.property,
     bbox |-> DataGet(data.bbox),
     stations_ids |-> DataGet(data.stations_ids),
     threshold |-> DataGet(data.threshold),
     missing_data_option |-> DataGet(data.missing_data_option),
     years |-> DataGet(data.years),
     months |-> DataGet(data.months),
     days |-> DataGet(data.days),
     hours |-> DataGet(data.hours)]

Indexes == {"climate_public_daily_data", "climate_station_information"}

\* command lines: every option is text
CliRequests ==
    {[index |-> i, calculations |-> PyNames({"mean", "max", "min"}),
      property |-> "TOTAL_PRECIPITATION",
      bbox |-> b, stations_ids |-> s, threshold |-> d[1],
      missing_data_option |-> o,
      years |-> d[2], months |-> d[3], days |-> Absent, hours |-> Absent] :
        i \in Indexes,
        b \in {Absent, PyStr("80,-141,25,-138")},
        s \in {Absent, PyStr("5680")},
        o \in {Absent, PyStr("None"), PyStr("WMO")},
        d \in {<<Absent, Absent, Absent>>,
               <<PyInt(1), PyStr("1980"), PyStr("11")>>}}

\* request bodies: JSON values
ExecuteRequests ==
    {[index |-> i, calculations |-> c[1],
      property |-> "TOTAL_PRECIPITATION",
      bbox |-> b, stations_ids |-> s, threshold |-> c[2],
      missing_data_option |-> o,
      years |-> d[1], months |-> d[2], days |-> Absent, hours |-> Absent] :
        i \in Indexes,
        c \in {<<Absent, Absent>>, <<PyNames(RecognizedNames), PyNum(25)>>},
        b \in {Absent, PyBox(80, 0 - 141, 25, 0 - 138)},
        s \in {Absent, PyList(<<5680, 5682>>)},
        o \in {Absent, PyInt(5), PyStr("WMO"), PyInt(7)},
        d \in {<<Absent, Absent>>,
               <<PyList(<<1980>>), PyList(<<11, 12>>)>>}}

(***************************************************************************)
(* One invocation of climate_stats, from an entry point to its outcome.    *)
(***************************************************************************)
climate_stats_cli ==
    /\ pc = "idle"
    /\ \E given \in CliRequests, empty \in EmptyDefaults :
        /\ request' = [entry |-> "cli", given |-> given]
        /\ args' = CliArgs(given, empty)
    /\ pc' = "query"
    /\ UNCHANGED <<call, ret, query, es_result, locals, response>>

execute ==
    /\ pc = "idle"
    /\ \E data \in ExecuteRequests :
        /\ request' = [entry |-> "execute", given |-> data]
        /\ args' = ExecuteArgs(data)
    /\ pc' = "query"
    /\ UNCHANGED <<call, ret, query, es_result, locals, response>>

\* lines 763-794
QueryBuilding ==
    /\ pc = "query"
    /\ LET r == QueryOf(args)
           printed == PrintsOfBuildQuery(MappingOf(args.index), r)
       IN  IF r.kind = "raise"
           THEN /\ locals' = [locals EXCEPT !.outcome = r,
                                            !.stdout = @ \o printed]
                /\ pc' = "raised"
                /\ UNCHANGED query
           ELSE /\ query' = r.value
                /\ locals' = [locals EXCEPT !.stdout = @ \o printed]
                /\ pc' = "search"
    /\ UNCHANGED <<call, ret, request, args, es_result, response>>

\* a number of matches far above the length of the page, and one whose
\* percentages are not binary fractions: (1 / 4000) * 100 is a float above
\* 0.025
ManyMatches == 4000

\* lines 798-811: the store answers with a page of at most `size` records
\* and the number of matches, which is at least the length of the page
Search ==
    /\ pc = "search"
    /\ \E es_hits \in SeqsUpTo(Records, MaxHits) :
       \E es_count \in {Len(es_hits), Len(es_hits) + 1, ManyMatches} :
         LET r == ValuesLoop(es_hits, args.property, <<>>)
         IN  /\ es_result' = [hits |-> es_hits, total |-> PyInt(es_count)]
             /\ locals' = [locals EXCEPT !.valuesResultsList = r.list,
                                         !.outcome = r.outcome]
             /\ pc' = IF r.outcome = Unbound THEN "missing_data" ELSE "raised"
    /\ UNCHANGED <<call, ret, request, args, query, response>>

\* lines 826-898
MissingDataHandling ==
    /\ pc = "missing_data"
    /\ locals' = MissingDataToOutputs(locals, args, es_result.hits, es_result.total)
    /\ pc' = IF locals'.outcome.kind = "raise" THEN "raised" ELSE "returned"
    /\ UNCHANGED <<call, ret, request, args, query, es_result, response>>

\* lines 947-954: what the command does with the outcome of climate_stats
climate_stats_cli_end ==
    /\ pc \in {"raised", "returned"}
    /\ request.entry = "cli"
    /\ response = Unbound
    /\ response' = CliResponse(locals.outcome, locals.stdout)
    /\ UNCHANGED <<call, ret, pc, request, args, query, es_result, locals>>

\* lines 1001-1021: what execute does with the outcome of climate_stats
execute_end ==
    /\ pc \in {"raised", "returned"}
    /\ request.entry = "execute"
    /\ response = Unbound
    /\ response' = ExecuteResponse(locals.outcome)
    /\ UNCHANGED <<call, ret, pc, request, args, query, es_result, locals>>

Next ==
    \/ climate_stats_cli
    \/ execute
    \/ QueryBuilding
    \/ Search
    \/ MissingDataHandling
    \/ climate_stats_cli_end
    \/ execute_end

Spec == Init /\ [][Next]_vars


(***************************************************************************)
(* Properties of the direct calls (specification SpecFn).                  *)
(***************************************************************************)
Abs(x) == IF x < 0 THEN 0 - x ELSE x

IsMissing(s, i) == s[i] = PyNone

\* all of s[a..a+n-1] are missing
MissingWindow(s, a, n) == \A i \in a..(a + n - 1) : IsMissing(s, i)

\* r is the length of a run of missing entries of s, and no run is longer
LongestRunIs(s, r) ==
    /\ r = 0 \/ \E a \in 1..(Len(s) - r + 1) : MissingWindow(s, a, r)
    /\ ~ \E a \in 1..(Len(s) - r) : MissingWindow(s, a, r + 1)

MissingIndexes(s) == {i \in 1..Len(s) : IsMissing(s, i)}

\* C1: for every value sequence, calculate_consecutive_missing_days returns
\* the length of the longest maximal run of None entries, and 0 when the
\* sequence has no None entry (the empty sequence included).
C1_LongestRun ==
    (call.fn = "calculate_consecutive_missing_days" /\ call.data.type = "list")
        => /\ ret.kind = "return"
           /\ ret.value.type = "int"
           /\ LongestRunIs(call.data.items, ret.value.val)
           /\ (MissingIndexes(call.data.items) = {} => ret.value.val = 0)

\* two runs of different lengths, separated by a zero: the longer one wins
C1_Witness ==
    /\ call.fn = "calculate_consecutive_missing_days"
    /\ call.data = PyList(<<PyNone, PyNum(0), PyNone, PyNone>>)
    /\ ret = Ret(PyInt(2))

\* C2: the count returned by calculate_missing_days, and by
\* calculate_missing_data over records carrying the field, is the number of
\* entries that are None; zero and the other values are not counted.
C2_MissingCount ==
    /\ call.fn = "calculate_missing_days"
          => ret = Ret(PyInt(Cardinality(MissingIndexes(call.data.items))))
    /\ (call.fn = "calculate_missing_data" /\ call.data_field = "TEMP")
          => ret = Ret(PyInt(Cardinality(
                 {i \in 1..Len(call.es_hits) :
                      call.es_hits[i].properties["TEMP"] = PyNone})))

\* a sequence holding a zero, a negative value and one None
C2_Witness ==
    /\ call.fn = "calculate_missing_days"
    /\ call.data = PyList(<<PyNum(0), PyNone, PyNum(0 - Unit)>>)
    /\ ret = Ret(PyInt(1))

PercentagePolicy(option) == option \in {PyInt(5), PyInt(10), PyInt(15)}

\* C3: for a policy P in {5, 10, 15} and a missing percentage above P,
\* check_missing_data_options returns a "filtered" status string carrying
\* the percentage and P; it does not raise.
C3_FilteredReturned ==
    (/\ call.fn = "check_missing_data_options"
     /\ PercentagePolicy(call.option)
     /\ call.percentage.val > call.option.val * Unit)
        => /\ ret.kind = "return"
           /\ ret.value = FilteredMessage(call.percentage, call.option)

\* C4: for a policy P in {5, 10, 15} and a missing percentage at or below
\* P, the status is exactly "OK", whatever the day count and the run are.
C4_WithinLimitOK ==
    (/\ call.fn = "check_missing_data_options"
     /\ PercentagePolicy(call.option)
     /\ call.percentage.val <= call.option.val * Unit)
        => ret = Ret(PyStr("OK"))

\* the boundary: 10.00 percent under policy 10, with WMO-size counts
C4_Witness ==
    /\ call.fn = "check_missing_data_options"
    /\ call.option = PyInt(10)
    /\ call.percentage = PyNum(10 * Unit)
    /\ call.missing_days = 12
    /\ call.consecutive_missing_days = 6
    /\ ret = Ret(PyStr("OK"))

WMOMet == Ret(PyStr("WMO criteria met: Missing or invalid month"))

\* C5 as stated: under "WMO" the status is "OK" when the longest run is 0,
\* and otherwise the criteria-met message exactly when missing_days >= 11
\* or the run >= 5; the first branch tests the run only.
C5_RunOnlyFirstBranch ==
    (call.fn = "check_missing_data_options" /\ call.option = PyStr("WMO"))
        => ret = IF call.consecutive_missing_days = 0 THEN Ret(PyStr("OK"))
                 ELSE IF call.missing_days >= 11
                         \/ call.consecutive_missing_days >= 5
                      THEN WMOMet
                      ELSE Ret(PyStr("OK"))

\* C5 amended: under "WMO" the status is "OK" when missing_days is 0 or the
\* longest run is 0, and otherwise the criteria-met message exactly when
\* missing_days >= 11 or the run >= 5.
C5_WMOStatus ==
    (call.fn = "check_missing_data_options" /\ call.option = PyStr("WMO"))
        => /\ ret.kind = "return"
           /\ (ret = WMOMet) <=>
                 /\ call.missing_days # 0
                 /\ call.consecutive_missing_days # 0
                 /\ call.missing_days >= 11 \/ call.consecutive_missing_days >= 5
           /\ (ret # WMOMet) => ret = Ret(PyStr("OK"))

\* 3 missing days in one run of 5 or more: the run limit alone is enough
C5_Witness ==
    /\ call.fn = "check_missing_data_options"
    /\ call.option = PyStr("WMO")
    /\ call.missing_days = 3
    /\ call.consecutive_missing_days = 5
    /\ ret = WMOMet

AcceptedPolicy(option) ==
    option \in {PyNone, PyInt(5), PyInt(10), PyInt(15), PyStr("WMO")}

\* C6: for a policy outside {None, 5, 10, 15, "WMO"} the call ends in an
\* error that reaches the caller; no status string is returned.
C6_InvalidPolicyRaises ==
    (call.fn = "check_missing_data_options" /\ ~ AcceptedPolicy(call.option))
        => ret.kind = "raise"

\* the str 'None' is not the None object
C6_Witness ==
    /\ call.fn = "check_missing_data_options"
    /\ call.option = PyStr("None")
    /\ ret = Raise("UnboundLocalError")

OptionalFields ==
    {"mean", "max", "min", "count_above", "count_below", "count_equal"}

\* C10: calculate_statistics reports total = the number of entries that are
\* not None; when every entry is None (or there is none), total is 0 and
\* the six optional fields are null, whatever was requested.
C10_TotalAndAllMissing ==
    call.fn = "calculate_statistics" =>
        LET present == {i \in 1..Len(call.values) : ~ IsMissing(call.values, i)}
        IN  /\ ret.kind = "return"
                 => ret.value.total = PyInt(Cardinality(present))
            /\ (call.calculations # PyNone /\ call.threshold # PyNone)
                 => ret.kind = "return"
            /\ present = {}
                 => /\ ret.kind = "return"
                    /\ ret.value.total = PyInt(0)
                    /\ \A f \in OptionalFields : ret.value[f] = PyNone

\* everything requested over an all-missing sequence
C10_Witness ==
    /\ call.fn = "calculate_statistics"
    /\ call.calculations = PyNames(RecognizedNames)
    /\ call.values = <<PyNone, PyNone>>
    /\ ret.kind = "return"
    /\ ret.value.total = PyInt(0)
    /\ ret.value.mean = PyNone

\* a zero among missing entries counts towards the total
C10_WitnessTotal ==
    /\ call.fn = "calculate_statistics"
    /\ call.values = <<PyNone, PyNum(0), PyNone>>
    /\ ret.kind = "return"
    /\ ret.value.total = PyInt(1)

(***************************************************************************)
(* Properties of an invocation of climate_stats (specification Spec).      *)
(***************************************************************************)
Invoked == pc # "idle"

\* the call of climate_stats has ended, by return or by exception
Over == pc \in {"raised", "returned"}

\* the missing-data evaluation of lines 826-827 was reached
Evaluated == Over /\ locals.missing_data # PyNone

\* C7: when the caller gives no missing-data option, at either entry point,
\* the policy handed to the classification is None and the classification
\* is the string "None", without an error from check_missing_data_options.
C7_NoOptionIsNone ==
    (Invoked /\ request.given.missing_data_option = Absent)
        => /\ args.missing_data_option = PyNone
           /\ \A percentage \in Percentages, days \in 0..MaxMissingDays,
                 run \in 0..MaxRun :
                 check_missing_data_options(args.missing_data_option,
                     percentage, PyInt(days), PyInt(run)) = Ret(PyStr("None"))

\* C8: when the matched record count is 0, climate_stats ends with the
\* ZeroDivisionError of the percentage, whatever the policy is, and has
\* produced no status, no statistics and no output structure.
C8_EmptyMatchRaises ==
    (Evaluated /\ es_result.total = PyInt(0))
        => /\ pc = "raised"
           /\ locals.outcome = Raise("ZeroDivisionError")
           /\ locals.missingParameters = PyNone
           /\ locals.statistics_result = Unbound
           /\ locals.output_info = Unbound

\* no match, and no policy given in the request body
C8_Witness ==
    /\ pc = "raised"
    /\ request.entry = "execute"
    /\ args.missing_data_option = PyNone
    /\ es_result # PyNone
    /\ es_result.total = PyInt(0)
    /\ locals.outcome = Raise("ZeroDivisionError")

MissingRecords ==
    {i \in 1..Len(es_result.hits) :
         es_result.hits[i].properties[args.property] = PyNone}

\* C9: for a matched record count >= 1 and a page no longer than it, the
\* missing percentage is 100 * missing_count / count rounded to 2 decimals
\* (the hundredth nearest to the quotient) and lies between 0 and 100.
C9_Percentage ==
    (Evaluated /\ es_result.total.val >= 1)
        => LET c == es_result.total.val
               m == Cardinality(MissingRecords)
               p == locals.missing_data_percentage
               h == p.val \div (Unit \div 100)
           IN  /\ p.type = "num"
               /\ p.val = h * (Unit \div 100)
               /\ 2 * Abs(h * c - 10000 * m) <= c
               /\ 0 <= p.val /\ p.val <= 100 * Unit

\* 2 missing among 3 matches: 66.666... is reported as 66.67
C9_Witness ==
    /\ Evaluated
    /\ es_result.total = PyInt(3)
    /\ Cardinality(MissingRecords) = 2
    /\ locals.missing_data_percentage = PyNum(6667 * (Unit \div 100))

\* 1 missing among 4000 matches: 0.025 is halfway between two hundredths,
\* the float (1 / 4000) * 100 lies above it and 0.03 is reported
C9_WitnessTie ==
    /\ Evaluated
    /\ es_result.total = PyInt(ManyMatches)
    /\ Cardinality(MissingRecords) = 1
    /\ locals.missing_data_percentage = PyNum(3 * (Unit \div 100))

(***************************************************************************)
(* Properties of calculate_statistics, continued (specification SpecFn).   *)
(***************************************************************************)
StatisticsCall == call.fn = "calculate_statistics"

\* a call with a container of names and a threshold the requested counts
\* can use: a number, or None when no value is to be ordered against it
ValidStatisticsCall ==
    /\ StatisticsCall
    /\ call.calculations # PyNone
    /\ call.threshold = PyNone =>
           call.calculations.items
               \cap {"count above threshold", "count below threshold"} = {}

PresentIndexes == {i \in 1..Len(call.values) : ~ IsMissing(call.values, i)}

\* the calculation name that fills a field of the report
NameOfField(f) ==
    IF f = "count_above" THEN "count above threshold"
    ELSE IF f = "count_below" THEN "count below threshold"
    ELSE IF f = "count_equal" THEN "count equal threshold"
    ELSE f

\* C11: every optional field whose calculation was not requested is null
\* in the report, never zero; names outside the recognized ones raise no
\* error and change no field of the report.
C11_UnrequestedNull ==
    ValidStatisticsCall =>
        /\ ret.kind = "return"
        /\ \A f \in OptionalFields :
               NameOfField(f) \notin call.calculations.items
                   => ret.value[f] = PyNone
        /\ ret = calculate_statistics(
                     PyNames(call.calculations.items \cap RecognizedNames),
                     call.values, call.threshold)

\* only mean and min requested, with unknown names, over values 0 and -1
C11_Witness ==
    /\ StatisticsCall
    /\ call.calculations = PyNames(UnknownNames \cup {"mean", "min"})
    /\ call.values = <<PyNum(0), PyNone, PyNum(0 - Unit)>>
    /\ call.threshold = PyNum(0)
    /\ ret.kind = "return"
    /\ ret.value.mean = PyNum(0 - (Unit \div 2))
    /\ ret.value.max = PyNone
    /\ ret.value.count_equal = PyNone

\* C12 as stated: with at least one non-missing entry, requesting
\* count_above, count_below or count_equal yields that field non-null.
C12_FieldNamesRecognized ==
    (ValidStatisticsCall /\ PresentIndexes # {}) =>
        \A f \in {"count_above", "count_below", "count_equal"} :
            f \in call.calculations.items
                => ret.kind = "return" /\ ret.value[f] # PyNone

\* C12 amended: the recognized names are mean, max, min, "count above
\* threshold", "count below threshold" and "count equal threshold"; with at
\* least one non-missing entry, requesting one of the three count names
\* yields a non-null count_above, count_below or count_equal field.
C12_CountNamesRecognized ==
    (ValidStatisticsCall /\ PresentIndexes # {}) =>
        /\ ret.kind = "return"
        /\ \A f \in {"count_above", "count_below", "count_equal"} :
               NameOfField(f) \in call.calculations.items
                   => ret.value[f].type = "int"

\* "count above threshold" alone, over one value above the threshold
C12_Witness ==
    /\ StatisticsCall
    /\ call.calculations = PyNames({"count above threshold"})
    /\ call.values = <<PyNone, PyNum(25)>>
    /\ call.threshold = PyNum(0)
    /\ ret.kind = "return"
    /\ ret.value.count_above = PyInt(1)

PresentWhere(P(_)) == {i \in PresentIndexes : P(call.values[i].val)}

\* C13: a non-null count_above, count_below or count_equal is the number of
\* non-missing values strictly greater than, strictly less than or exactly
\* equal to the threshold; the threshold field is the threshold passed in.
C13_ThresholdCounts ==
    (StatisticsCall /\ ret.kind = "return") =>
        LET t == NumVal(call.threshold)
            Above(v) == v > t
            Below(v) == v < t
            Equal(v) == call.threshold # PyNone /\ v = t
        IN  /\ ret.value.threshold = call.threshold
            /\ ret.value.count_above # PyNone =>
                 ret.value.count_above = PyInt(Cardinality(PresentWhere(Above)))
            /\ ret.value.count_below # PyNone =>
                 ret.value.count_below = PyInt(Cardinality(PresentWhere(Below)))
            /\ ret.value.count_equal # PyNone =>
                 ret.value.count_equal = PyInt(Cardinality(PresentWhere(Equal)))

\* values 0.125, 0.125 and -1 against the threshold 0.125
C13_Witness ==
    /\ StatisticsCall
    /\ call.values = <<PyNum(25), PyNum(0 - Unit), PyNum(25)>>
    /\ call.threshold = PyNum(25)
    /\ ret.kind = "return"
    /\ ret.value.count_above = PyInt(0)
    /\ ret.value.count_below = PyInt(1)
    /\ ret.value.count_equal = PyInt(2)

\* a None threshold with only the equal count requested: no value equals it
C13_WitnessNoneThreshold ==
    /\ StatisticsCall
    /\ call.calculations = PyNames({"count equal threshold"})
    /\ call.values = <<PyNum(25)>>
    /\ call.threshold = PyNone
    /\ ret.kind = "return"
    /\ ret.value.count_equal = PyInt(0)

RECURSIVE SumPresent(_, _)
SumPresent(values, n) ==
    IF n = 0 THEN 0
    ELSE SumPresent(values, n - 1)
             + (IF values[n] = PyNone THEN 0 ELSE values[n].val)

\* C14: with at least one non-missing entry, a requested max is the
\* greatest and a requested min the least non-missing element, and a
\* requested mean is the mean of the non-missing elements rounded to 2
\* decimals; missing entries contribute to none of them.
C14_MaxMinMean ==
    (ValidStatisticsCall /\ PresentIndexes # {}) =>
        LET n == Cardinality(PresentIndexes)
            sum == SumPresent(call.values, Len(call.values))
            names == call.calculations.items
        IN  /\ ret.kind = "return"
            /\ "max" \in names =>
                 /\ \E i \in PresentIndexes : ret.value.max = call.values[i]
                 /\ \A i \in PresentIndexes : call.values[i].val <= ret.value.max.val
            /\ "min" \in names =>
                 /\ \E i \in PresentIndexes : ret.value.min = call.values[i]
                 /\ \A i \in PresentIndexes : call.values[i].val >= ret.value.min.val
            /\ "mean" \in names =>
                 LET h == ret.value.mean.val \div (Unit \div 100)
                 IN  /\ ret.value.mean = PyNum(h * (Unit \div 100))
                     /\ Abs(2 * h * n - sum) <= n

\* 0.125, a missing entry and -1: mean -0.4375 is reported as -0.44
C14_Witness ==
    /\ StatisticsCall
    /\ call.calculations = PyNames({"mean", "max", "min"})
    /\ call.values = <<PyNum(25), PyNone, PyNum(0 - Unit)>>
    /\ ret.kind = "return"
    /\ ret.value.max = PyNum(25)
    /\ ret.value.min = PyNum(0 - Unit)
    /\ ret.value.mean = PyNum(0 - 88)

(***************************************************************************)
(* Properties of the station list, the output structure, the query and the *)
(* handler (specification SpecFn).                                         *)
(***************************************************************************)
\* the station tuple of the i-th record of the call
InputTuple(i) ==
    <<call.es_hits[i].properties["STATION_NAME"],
      call.es_hits[i].properties["STN_ID"],
      call.es_hits[i].geometry.coordinates>>

\* index of the first record that carries the tuple t
FirstOccurrence(t) ==
    CHOOSE i \in 1..Len(call.es_hits) :
        /\ InputTuple(i) = t
        /\ \A j \in 1..(i - 1) : InputTuple(j) # t

\* the list `out` holds each distinct station tuple of the page exactly
\* once, no other tuple, in order of first occurrence
DistinctStationsOfPage(out) ==
    /\ \A k \in 1..Len(call.es_hits) :
           Cardinality({i \in 1..Len(out) : out[i] = InputTuple(k)}) = 1
    /\ \A i \in 1..Len(out) :
           \E k \in 1..Len(call.es_hits) : InputTuple(k) = out[i]
    /\ \A i, j \in 1..Len(out) :
           i < j => FirstOccurrence(out[i]) < FirstOccurrence(out[j])

\* C15: for every page of records, the empty one included, the station
\* list built from it is a list that holds each distinct station tuple
\* (name, id, coordinates) of the page exactly once, holds no tuple that is
\* not in the page, and is ordered by first occurrence; two tuples are the
\* same only when all three fields are equal.
C15_DistinctStations ==
    call.fn = "unique_stations" =>
        /\ ret.kind = "return"
        /\ ret.value.type = "list"
        /\ DistinctStationsOfPage(ret.value.items)

\* the same for the pages that hold a record, where lines 848-857 run
C15_DistinctStationsOfRecords ==
    (call.fn = "unique_stations" /\ call.es_hits # <<>>) =>
        /\ ret.kind = "return"
        /\ ret.value.type = "list"
        /\ DistinctStationsOfPage(ret.value.items)

\* the empty page: no list is built, the station list stays None
C15_EmptyPage ==
    /\ call.fn = "unique_stations"
    /\ call.es_hits = <<>>
    /\ ret = Ret(PyNone)

\* A, then the station that differs from A by its coordinates only, then A
C15_Witness ==
    /\ call.fn = "unique_stations"
    /\ Len(call.es_hits) = 3
    /\ InputTuple(1) = StationInfo(StationA)
    /\ InputTuple(2) = StationInfo(StationA2)
    /\ InputTuple(3) = StationInfo(StationA)
    /\ ret = Ret(PyList(<<StationInfo(StationA), StationInfo(StationA2)>>))

\* C16: create_geojson_with_stats returns a FeatureCollection whose info is
\* the given output_info, whose global_stats is the given report and whose
\* features are one Point feature per station of the list, in the same
\* order, with the station's name, id and coordinates unchanged.
C16_FeatureCollection ==
    call.fn = "create_geojson_with_stats" =>
        LET stations == call.station_data.items
            geojson == ret.value
        IN  /\ ret.kind = "return"
            /\ geojson.type = "FeatureCollection"
            /\ geojson.info = call.output_info
            /\ geojson.global_stats = call.global_stats
            /\ Len(geojson.features) = Len(stations)
            /\ \A i \in 1..Len(stations) :
                   /\ geojson.features[i].type = "Feature"
                   /\ geojson.features[i].geometry.type = "Point"
                   /\ geojson.features[i].properties.name = stations[i][1]
                   /\ geojson.features[i].properties.station_id = stations[i][2]
                   /\ geojson.features[i].geometry.coordinates = stations[i][3]

\* stations B then A: two features, B first
C16_Witness ==
    /\ call.fn = "create_geojson_with_stats"
    /\ call.station_data = PyList(<<StationInfo(StationB), StationInfo(StationA)>>)
    /\ ret.kind = "return"
    /\ Len(ret.value.features) = 2
    /\ ret.value.features[1].properties.name = PyStr("B")
    /\ ret.value.features[2].properties.station_id = PyInt(1)
    /\ ret.value.features[2].geometry.coordinates = <<0, 0>>

\* the list filters of a call of build_query, with the key of their name
ListFilters ==
    <<[key |-> "STN_IDName", values |-> call.stations_ids],
      [key |-> "yearName", values |-> call.years],
      [key |-> "monthName", values |-> call.months],
      [key |-> "dayName", values |-> call.days],
      [key |-> "hourName", values |-> call.hours]>>

NonEmpty(values) == values # PyNone /\ values.items # <<>>

\* a call of either build_query with a box, or no box, as bounding box
BuildQueryCall ==
    /\ call.fn \in {"build_query", "test.build_query"}
    /\ call.bbox.type \in {"NoneType", "dict"}

\* number of clauses of `must` that are the terms clause of filter f
ClausesOf(f, must) ==
    LET mapping == MappingOf(call.index)
    IN  IF f.key \notin DOMAIN mapping THEN 0
        ELSE Cardinality({i \in 1..Len(must) :
                 /\ must[i].terms.field = "properties." \o mapping[f.key]
                 /\ must[i].terms.values = f.values})

BoxClause(bbox, query_filter) ==
    IF bbox = PyNone THEN query_filter = Unbound
    ELSE query_filter =
           [geo_bounding_box |->
             [geometry |-> [top_left |-> bbox.top_left,
                            bottom_right |-> bbox.bottom_right]]]

\* C17 as stated: for every dataset name and every combination of the six
\* filters, the query holds one clause for each non-empty filter and none
\* for an empty one; the box is the geo_bounding_box filter and each list is
\* a terms clause on the dataset's mapped field name.
C17_ClausePerFilter ==
    BuildQueryCall =>
        /\ ret.kind = "return"
        /\ BoxClause(call.bbox, ret.value.filter)
        /\ Len(ret.value.must)
             = Cardinality({n \in 1..5 : NonEmpty(ListFilters[n].values)})
        /\ \A n \in 1..5 :
               NonEmpty(ListFilters[n].values)
                   => ClausesOf(ListFilters[n], ret.value.must) = 1

\* the filters that are not empty and have a field name in the dataset
Mapped(n) ==
    /\ NonEmpty(ListFilters[n].values)
    /\ ListFilters[n].key \in DOMAIN MappingOf(call.index)

\* C17 amended: the query holds one terms clause, on the mapped field name,
\* for each non-empty list whose field name the dataset's mapping defines,
\* and no clause for an empty list or for a list the dataset has no field
\* name for (every list, for a dataset name outside the table); the box is
\* the geo_bounding_box filter whatever the dataset.  The copy in test.py
\* does the same, except that a non-empty station, year or month list
\* without a field name in the dataset raises KeyError.
C17_ClausePerMappedFilter ==
    BuildQueryCall =>
        IF call.fn = "test.build_query"
           /\ \E n \in 1..3 : NonEmpty(ListFilters[n].values) /\ ~ Mapped(n)
        THEN ret = Raise("KeyError")
        ELSE /\ ret.kind = "return"
             /\ BoxClause(call.bbox, ret.value.filter)
             /\ Len(ret.value.must) = Cardinality({n \in 1..5 : Mapped(n)})
             /\ \A n \in 1..5 :
                    Mapped(n) => ClausesOf(ListFilters[n], ret.value.must) = 1

\* the normals dataset has month and station names only: of stations,
\* years, months and days given, two clauses are built, with the box
C17_Witness ==
    /\ call.fn = "build_query"
    /\ call.index = "climate_normals_data"
    /\ call.bbox = PyBox(80, 0 - 141, 25, 0 - 138)
    /\ NonEmpty(call.stations_ids) /\ NonEmpty(call.years)
    /\ NonEmpty(call.months) /\ NonEmpty(call.days)
    /\ ret.kind = "return"
    /\ ret.value.must = <<Terms("STN_ID", call.stations_ids),
                          Terms("MONTH", call.months)>>
    /\ ret.value.filter # Unbound

\* the same filters given to the copy in test.py
C17_WitnessKeyError ==
    /\ call.fn = "test.build_query"
    /\ call.index = "climate_normals_data"
    /\ NonEmpty(call.years)
    /\ ret = Raise("KeyError")

\* C18: execute returns the pair ("application/json", payload) when
\* climate_stats returns, returns the body {error, error_code:
\* PROCESS_EXECUTION_ERROR} with status 500 when climate_stats raises a value
\* error, and lets an error of any other kind leave it as an exception.
C18_ExecuteOutcome ==
    call.fn = "execute" =>
        IF call.outcome.kind = "return"
        THEN ret = Ret(<<PyStr("application/json"), call.outcome.value>>)
        ELSE IF call.outcome.value.val \in {"ValueError", "UnicodeDecodeError"}
        THEN /\ ret.kind = "return"
             /\ ret.value[2] = PyInt(500)
             /\ DOMAIN ret.value[1] = {"type", "error", "error_code"}
             /\ ret.value[1].error_code = PyStr("PROCESS_EXECUTION_ERROR")
             /\ ret.value[1].error.of = call.outcome.value
        ELSE ret = call.outcome

\* a value error: the body with status 500
C18_Witness ==
    /\ call.fn = "execute"
    /\ call.outcome = Raise("ValueError")
    /\ ret.kind = "return"
    /\ ret.value[2] = PyInt(500)

\* the output text comes back with the JSON mimetype
C18_WitnessReturn ==
    /\ call.fn = "execute"
    /\ call.outcome.kind = "return"
    /\ ret.kind = "return"
    /\ ret.value[1] = PyStr("application/json")

\* a TypeError leaves execute as it left climate_stats
C18_WitnessRaise ==
    /\ call.fn = "execute"
    /\ call.outcome = Raise("TypeError")
    /\ ret = Raise("TypeError")

(***************************************************************************)
(* Properties of the invocation, continued (specification Spec).           *)
(***************************************************************************)
\* the query was built, or build_query raised
QueryBuilt == pc \notin {"idle", "query"}

\* the filters of the invocation, with the key of their name
ArgFilters ==
    <<[key |-> "STN_IDName", values |-> args.stations_ids],
      [key |-> "yearName", values |-> args.years],
      [key |-> "monthName", values |-> args.months],
      [key |-> "dayName", values |-> args.days],
      [key |-> "hourName", values |-> args.hours]>>

\* C20: the filters given to climate_stats reach the matching clause of the
\* query: a station id list is the list of the station-id terms clause, a
\* bounding box is the box of the geo_bounding_box filter, and years,
\* months, days and hours are the lists of their own clauses.
C20_FiltersReachClauses ==
    QueryBuilt =>
        LET mapping == MappingOf(args.index)
        IN  /\ \A n \in 1..5 :
                 (/\ ArgFilters[n].values.type = "list"
                  /\ ArgFilters[n].values.items # <<>>
                  /\ ArgFilters[n].key \in DOMAIN mapping)
                   => /\ query # PyNone
                      /\ \E i \in 1..Len(query.must) :
                             query.must[i] =
                                 Terms(mapping[ArgFilters[n].key], ArgFilters[n].values)
            /\ args.bbox.type = "dict"
                   => /\ query # PyNone
                      /\ query.filter = GeoBoundingBox(args.bbox)

\* the fetch gave at least one record and every record carries the property
FetchedWithProperty ==
    /\ es_result # PyNone
    /\ es_result.hits # <<>>
    /\ \A i \in 1..Len(es_result.hits) :
           args.property \in DOMAIN es_result.hits[i].properties

\* C21: the longest consecutive-missing run handed to the classification
\* is computed over the ordered list of extracted values: for every fetched
\* page it is the longest run of missing entries in fetched order, and its
\* computation does not end the invocation.
C21_RunOverValueList ==
    (Evaluated /\ es_result.total.val >= 1) =>
        /\ locals.outcome # Raise("TypeError")
        /\ LongestRunIs(locals.valuesResultsList.items,
                        locals.consecutive_missing_days.val)

\* C22: an invocation whose fetch gives at least one record, all carrying
\* the property and the station fields, with a policy among None, 5, 10, 15
\* and "WMO", ends by returning the output and not in an error.
C22_EndsByReturning ==
    (/\ Over
     /\ FetchedWithProperty
     /\ args.missing_data_option
            \in {PyNone, PyInt(5), PyInt(10), PyInt(15), PyStr("WMO")})
        => /\ pc = "returned"
           /\ locals.outcome.kind = "return"

\* C23: the value list has the length of the fetched page and its i-th
\* entry is the property of the i-th record, None kept in place; the count
\* of missing days that follows is taken over that list.
C23_ValuesInFetchedOrder ==
    Evaluated =>
        LET values == locals.valuesResultsList.items
        IN  /\ locals.valuesResultsList.type = "list"
            /\ Len(values) = Len(es_result.hits)
            /\ \A i \in 1..Len(values) :
                   values[i] = es_result.hits[i].properties[args.property]
            /\ locals.missing_days # Unbound =>
                   locals.missing_days = PyInt(Cardinality(MissingRecords))

\* a page of 0, None, 0.125: the list keeps the None in the middle
C23_Witness ==
    /\ Evaluated
    /\ Len(es_result.hits) = 3
    /\ locals.valuesResultsList = PyList(<<PyNum(0), PyNone, PyNum(25)>>)
    /\ locals.missing_days = PyInt(1)

(***************************************************************************)
(* Properties of the direct calls, continued (specification SpecFn).       *)
(***************************************************************************)
\* C24: the two implementations of check_missing_data_options agree: for
\* every policy, missing percentage, missing-day count and longest run,
\* either both return the same status or both raise an error.
C24_ImplementationsAgree ==
    call.fn = "test.check_missing_data_options" =>
        LET r == check_missing_data_options(call.option, call.percentage,
                     PyInt(call.missing_days),
                     PyInt(call.consecutive_missing_days))
        IN  IF ret.kind = "return" THEN r = ret ELSE r.kind = "raise"

\* C25: for every value sequence s, the longest run r and the missing
\* count m satisfy 0 <= r <= m <= len(s), and r is 0 exactly when m is 0;
\* so the first WMO test, m == 0 or r == 0, decides as r == 0 alone does.
C25_RunWithinCount ==
    (call.fn = "calculate_consecutive_missing_days" /\ call.data.type = "list")
        => LET m == calculate_missing_days(call.data).value.val
               r == ret.value.val
           IN  /\ ret.kind = "return"
               /\ 0 <= r /\ r <= m /\ m <= Len(call.data.items)
               /\ (r = 0) <=> (m = 0)
               /\ (m = 0 \/ r = 0) <=> (r = 0)
               /\ WMOBranch(PyInt(m), PyInt(r))
                    = IF r = 0 THEN Ret(PyStr("OK"))
                      ELSE IF m >= 11 \/ r >= 5
                      THEN Ret(PyStr("WMO criteria met: Missing or invalid month"))
                      ELSE Ret(PyStr("OK"))

\* three missing entries of four, the longest run of length 2
C25_Witness ==
    /\ call.fn = "calculate_consecutive_missing_days"
    /\ call.data = PyList(<<PyNone, PyNone, PyNum(0), PyNone>>)
    /\ calculate_missing_days(call.data) = Ret(PyInt(3))
    /\ ret = Ret(PyInt(2))

\* a call that requests the three counts, with a numeric threshold
AllCountsCall ==
    /\ ValidStatisticsCall
    /\ RequestedCounts \subseteq call.calculations.items
    /\ PresentIndexes # {}

\* C26: with at least one non-missing entry and the three counts
\* requested, count_above + count_below + count_equal equals total.
C26_CountsSumToTotal ==
    AllCountsCall =>
        /\ ret.kind = "return"
        /\ ret.value.count_above.val + ret.value.count_below.val
               + ret.value.count_equal.val = ret.value.total.val
        /\ ret.value.total.val = Cardinality(PresentIndexes)

\* 0.125, 0 and -1 against the threshold 0: one value in each count
C26_Witness ==
    /\ AllCountsCall
    /\ call.values = <<PyNum(25), PyNum(0), PyNum(0 - Unit)>>
    /\ call.threshold = PyNum(0)
    /\ ret.value.count_above = PyInt(1)
    /\ ret.value.count_below = PyInt(1)
    /\ ret.value.count_equal = PyInt(1)
    /\ ret.value.total = PyInt(3)

\* a call that requests mean, max and min over some non-missing entry
MeanMaxMinCall ==
    /\ ValidStatisticsCall
    /\ {"mean", "max", "min"} \subseteq call.calculations.items
    /\ PresentIndexes # {}

\* C27 as stated: with mean, max and min requested, min <= mean <= max,
\* also for values with more than 2 decimals.
C27_MeanBetweenMinMax ==
    MeanMaxMinCall =>
        /\ ret.kind = "return"
        /\ ret.value.min.val <= ret.value.mean.val
        /\ ret.value.mean.val <= ret.value.max.val

\* every non-missing value is a multiple of 0.01
TwoDecimals ==
    \A i \in PresentIndexes : call.values[i].val % (Unit \div 100) = 0

\* C27 amended: min <= max, and the mean, rounded to 2 decimals, lies no
\* more than 0.005 outside of [min, max]; it lies inside when every
\* non-missing value has at most 2 decimals.
C27_MeanNearMinMax ==
    MeanMaxMinCall =>
        /\ ret.kind = "return"
        /\ ret.value.min.val <= ret.value.max.val
        /\ 2 * (ret.value.min.val - ret.value.mean.val) <= Unit \div 100
        /\ 2 * (ret.value.mean.val - ret.value.max.val) <= Unit \div 100
        /\ TwoDecimals => /\ ret.value.min.val <= ret.value.mean.val
                          /\ ret.value.mean.val <= ret.value.max.val

\* the single value 0.125: min and max are 0.125, the mean is 0.12
C27_Witness ==
    /\ MeanMaxMinCall
    /\ call.values = <<PyNone, PyNum(25)>>
    /\ ret.value.min = PyNum(25)
    /\ ret.value.max = PyNum(25)
    /\ ret.value.mean = PyNum(24)

\* 0 and -1, of 2 decimals at most: the mean -0.5 is between them
C27_WitnessTwoDecimals ==
    /\ MeanMaxMinCall
    /\ TwoDecimals
    /\ call.values = <<PyNum(0), PyNum(0 - Unit)>>
    /\ ret.value.mean = PyNum(0 - (Unit \div 2))

\* the structure printed by the returned output text
OutputOf(r) == r.value.text_of

\* C29: for every fetch result with a positive match count, an empty page
\* included, whose records carry the property, the invocation reaches
\* output construction with a station list and a statistics report that are
\* defined: it returns an output in which UNIQUE_STATIONS_COUNT is a number,
\* 0 for an empty page, and global_stats is a report.
C29_DefinedOutputs ==
    (Evaluated /\ es_result.total.val >= 1) =>
        /\ locals.outcome.kind = "return"
        /\ locals.unique_stations.type = "list"
        /\ locals.statistics_result # Unbound
        /\ OutputOf(locals.outcome).info.UNIQUE_STATIONS_COUNT.type = "int"
        /\ es_result.hits = <<>> =>
               OutputOf(locals.outcome).info.UNIQUE_STATIONS_COUNT = PyInt(0)
        /\ "total" \in DOMAIN OutputOf(locals.outcome).global_stats

\* the empty page of a positive match: the invocation is over with
\* TypeError, the station list still the None of line 784 and no report
C29_EmptyPage ==
    /\ Evaluated
    /\ es_result.total.val >= 1
    /\ es_result.hits = <<>>
    /\ locals.outcome = Raise("TypeError")
    /\ locals.unique_stations = PyNone
    /\ locals.statistics_result = Unbound

====
